---- MODULE Spec2Model ----
(***************************************************************************)
(* ID token validation of jms_oidc_rp (src/jms_oidc_rp/utils.py).          *)
(*                                                                         *)
(* One call of validate_and_return_id_token is modelled as a sequence of   *)
(* steps: the call is entered, _get_jwks_keys builds the key material,     *)
(* JWS().verify_compact decodes and verifies the token, _validate_claims   *)
(* checks the claims, and the call returns or raises.                      *)
(*                                                                         *)
(* Python strings that the code inspects (URLs, client ids) are sequences  *)
(* of one-character strings, so that urlparse and the `in` operator are    *)
(* computed and not assumed.                                               *)
(***************************************************************************)
EXTENDS Integers, Sequences, FiniteSets, TLC

\* ------------------------------------------------------------------ bounds

\* Timestamps (seconds since the epoch) range over 0..MaxTime.
MaxTime == 2
\* A call differs from the nominal call in at most MaxDeviations of its
\* aspects (issuer, audience/azp, timestamps, nonce, signature, JWKS reply).
MaxDeviations == 3

Times == 0..MaxTime

\* ----------------------------------------------------------------- strings

\* Smallest index i >= from with s[i] \in chars, Len(s)+1 when there is none
\* (str.find, with "not found" mapped past the end as urlsplit's min() does).
Find(s, chars, from) ==
    LET hits == {i \in from..Len(s) : s[i] \in chars}
    IN IF hits = {} THEN Len(s) + 1
       ELSE CHOOSE i \in hits : \A j \in hits : i <= j

\* str.lower on the alphabet of the model.
LowerChar(c) == IF c = "S" THEN "s" ELSE IF c = "A" THEN "a" ELSE c
Lower(s) == [i \in 1..Len(s) |-> LowerChar(s[i])]

\* Characters urlsplit accepts in a scheme (letters and digits of the model).
SchemeChars == {"s", "S", "h", "a", "A", "b", "u", "p", "1"}

\* urllib.parse.urlparse: scheme up to the first ':' (lower-cased), netloc
\* between '//' and the next '/', '?' or '#', and the rest as the path (the
\* URLs of the model carry no params, query or fragment to split off it).
urlparse(url) ==
    LET i == Find(url, {":"}, 1)
        hasScheme == /\ i <= Len(url)
                     /\ i > 1
                     /\ \A j \in 1..(i - 1) : url[j] \in SchemeChars
        rest == IF hasScheme THEN SubSeq(url, i + 1, Len(url)) ELSE url
        hasNetloc == Len(rest) >= 2 /\ rest[1] = "/" /\ rest[2] = "/"
        delim == Find(rest, {"/", "?", "#"}, 3)
    IN [scheme |-> IF hasScheme THEN Lower(SubSeq(url, 1, i - 1)) ELSE <<>>,
        netloc |-> IF hasNetloc THEN SubSeq(rest, 3, delim - 1) ELSE <<>>,
        path   |-> IF hasNetloc THEN SubSeq(rest, delim, Len(rest)) ELSE rest]

\* `x in s` for a Python str s: x occurs in s as a substring.
StrContains(s, x) ==
    \E i \in 1..(Len(s) + 1) :
        /\ i + Len(x) - 1 <= Len(s)
        /\ SubSeq(s, i, i + Len(x) - 1) = x

\* `x in l` for a Python list l: x equals one of its elements.
ListContains(l, x) == \E i \in 1..Len(l) : l[i] = x

\* django.utils.encoding.smart_bytes / force_bytes: the str as a bytes object.
smart_bytes(s) == <<"bytes", s>>

\* ------------------------------------------------------------ configuration

\* Client ids, as Python strings.
ClientA  == <<"c", "A">>
ClientB  == <<"c", "B">>
ClientAx == <<"c", "A", "x">>

\* oidc_rp_settings: loaded at process start and only read by utils.py.
Settings ==
    [CLIENT_ID              : {ClientA},
     CLIENT_SECRET          : {"client_secret"},
     PROVIDER_SIGNATURE_ALG : {"HS256", "RS256"},
     PROVIDER_SIGNATURE_KEY : {"provider_signature_key"},
     PROVIDER_ENDPOINT      : {<<"s", ":", "/", "/", "a", "/">>,
                               <<"s", ":", "/", "/", "a", ":", "1">>},
     ID_TOKEN_MAX_AGE       : {1},
     USE_NONCE              : BOOLEAN]

\* --------------------------------------------------------------- key material

OctKey(secret) == [kty |-> "oct", key |-> smart_bytes(secret)]
RsaKey(name)   == [kty |-> "RSA", key |-> smart_bytes(name)]
NoKey          == [kty |-> "none", key |-> smart_bytes("")]

\* What the provider's JWKS endpoint does when it is fetched: it serves a key
\* set, or KEYS.load_from_url raises (a JWKESTException for key data the
\* library cannot deserialize, another exception for a failed request).
JwksReplies ==
    { [outcome |-> "ok", keys |-> <<RsaKey("op_rsa")>>],
      [outcome |-> "ok", keys |-> <<>>],
      [outcome |-> "ok", keys |-> <<RsaKey("op_rsa"), OctKey("stray_secret")>>],
      [outcome |-> "JWKESTException", keys |-> <<>>],
      [outcome |-> "Exception", keys |-> <<>>] }
NominalJwksReply == [outcome |-> "ok", keys |-> <<RsaKey("op_rsa")>>]

\* --------------------------------------------------------------------- tokens

\* Issuer URLs: https://a, with a trailing slash, with a path, over http,
\* another host, an explicit port, userinfo, and the scheme in upper case.
IssuerUrls ==
    { <<"s", ":", "/", "/", "a">>,
      <<"s", ":", "/", "/", "a", "/">>,
      <<"s", ":", "/", "/", "a", "/", "p">>,
      <<"h", ":", "/", "/", "a">>,
      <<"s", ":", "/", "/", "b">>,
      <<"s", ":", "/", "/", "a", ":", "1">>,
      <<"s", ":", "/", "/", "u", "@", "a">>,
      <<"S", ":", "/", "/", "a">> }
NominalIssuer == <<"s", ":", "/", "/", "a">>

\* The aud claim: a JSON string or a JSON array of strings.
AudStr(s)  == [type |-> "str", str |-> s, list |-> <<>>]
AudList(l) == [type |-> "list", str |-> <<>>, list |-> l]
AudValues ==
    { AudStr(ClientA), AudStr(ClientB), AudStr(ClientAx),
      AudList(<<ClientA>>), AudList(<<ClientA, ClientB>>),
      AudList(<<ClientA, ClientA>>), AudList(<<ClientB, ClientB>>), AudList(<<>>) }

\* An optional claim: <<>> when the key is absent, <<v>> when it holds v.
Absent == <<>>
Some(v) == <<v>>

\* Python's None, among nonce values.
None == "None"

AzpValues   == {Absent, Some(ClientA), Some(ClientB)}
NbfValues   == {Absent} \cup {Some(t) : t \in Times}
NonceClaims == {Absent, Some("n1"), Some("n2")}
NonceArgs   == {None, "n1"}

\* How a compact JWS was produced: well-formed or not, its header's alg, and
\* the key it was signed with.
Signing(wf, alg, key) == [wellformed |-> wf, alg |-> alg, signer |-> key]
Signings(conf) ==
    { Signing(TRUE, "HS256", OctKey(conf.CLIENT_SECRET)),
      Signing(TRUE, "HS256", OctKey(conf.PROVIDER_SIGNATURE_KEY)),
      Signing(TRUE, "RS256", RsaKey("op_rsa")),
      Signing(TRUE, "RS256", RsaKey("evil_rsa")),
      Signing(TRUE, "none", NoKey),
      Signing(FALSE, "HS256", OctKey(conf.CLIENT_SECRET)) }
\* The provider signs as the relying party is configured to expect.
NominalSigning(conf) ==
    IF conf.PROVIDER_SIGNATURE_ALG = "HS256"
    THEN Signing(TRUE, "HS256", OctKey(conf.CLIENT_SECRET))
    ELSE Signing(TRUE, "RS256", RsaKey("op_rsa"))

\* The aspects in which a call can differ from the nominal call: a token the
\* provider issued to this client, valid at every time of the model, signed as
\* configured, presented with its own nonce while the provider serves its key.
Aspects == {"iss", "aud", "azp", "exp", "nbf", "iat", "nonce_claim", "nonce",
            "validate_nonce", "signing", "jwks"}
DeviationSets == {D \in SUBSET Aspects : Cardinality(D) <= MaxDeviations}

\* The values of aspect a in a call that deviates in the aspects D.
Pick(a, D, values, nominal) == IF a \in D THEN values \ {nominal} ELSE {nominal}

\* ---------------------------------------------------------------------- state

VARIABLES
    config,          \* oidc_rp_settings
    pc,              \* position of the call: idle, keys, verify, claims, done
    jws,             \* argument jws of the call
    nonce,           \* argument nonce
    validate_nonce,  \* argument validate_nonce
    jwks_endpoint,   \* what the provider's JWKS endpoint replies during the call
    jwks_keys,       \* the KEYS object built by _get_jwks_keys
    id_token,        \* local id_token: Absent before verify_compact returned
    utc_timestamp,   \* local utc_timestamp of _validate_claims: Absent before it is sampled
    result,          \* how the call ended
    trace,           \* the stages the call has run, in order
    prev             \* the outcome of the preceding call with the same arguments, if any

vars == <<config, pc, jws, nonce, validate_nonce, jwks_endpoint, jwks_keys,
          id_token, utc_timestamp, result, trace, prev>>

NoJws == [wellformed |-> FALSE, alg |-> "none", signer |-> NoKey,
          payload |-> [iss |-> NominalIssuer, aud |-> AudStr(ClientA), azp |-> Absent,
                       exp |-> 0, nbf |-> Absent, iat |-> 0, nonce |-> Absent]]
NoResult == [kind |-> "running", value |-> Absent, exc |-> "", msg |-> "", site |-> ""]

\* `return id_token` (line 50) and the bare `return` of line 44.
Returned(v) == [kind |-> "return", value |-> v, exc |-> "", msg |-> "", site |-> ""]
\* An exception leaving the call; site names the raise statement.
Raised(exc, msg, site) ==
    [kind |-> "raise", value |-> Absent, exc |-> exc, msg |-> msg, site |-> site]

\* --------------------------------------------------------- validate: the keys

\* A faulty variant of shared_key: the client secret whatever the algorithm.
shared_key_AlwaysClientSecret(conf) == conf.CLIENT_SECRET

\* Lines 34-36: the key added to the key material as an oct key.
shared_key(conf) ==
    IF conf.PROVIDER_SIGNATURE_ALG = "HS256"
    THEN conf.CLIENT_SECRET
    ELSE conf.PROVIDER_SIGNATURE_KEY

\* _get_jwks_keys after a successful load_from_url: the fetched keys, then the
\* shared key as an oct key.
get_jwks_keys(fetched, key) ==
    Append(fetched, [kty |-> "oct", key |-> smart_bytes(key)])

\* ---------------------------------------------------- validate: the signature

\* The key type a JWS alg verifies with.
KeyTypeOf(alg) == IF alg = "HS256" THEN "oct" ELSE IF alg = "RS256" THEN "RSA" ELSE "none"

\* A faulty variant of verify_compact: any key of the alg's type is taken to verify.
verify_compact_AnyKeyOfType(j, keys) ==
    /\ j.wellformed
    /\ j.alg # "none"
    /\ \E i \in 1..Len(keys) : keys[i].kty = KeyTypeOf(j.alg)

\* JWS().verify_compact(jws, keys): TRUE when it returns the payload, FALSE when
\* it raises a JWKESTException (bad syntax, alg none, no key of the alg's type,
\* or no such key verifying the signature).
verify_compact(j, keys) ==
    /\ j.wellformed
    /\ j.alg # "none"
    /\ \E i \in 1..Len(keys) :
          /\ keys[i].kty = KeyTypeOf(j.alg)
          /\ keys[i].key = j.signer.key

\* ------------------------------------------------------- validate: the claims

\* A faulty variant of IssuerOk: the whole URLs are compared.
IssuerOk_WholeUrl(tok, conf) == tok.iss = conf.PROVIDER_ENDPOINT

\* Lines 76-78.
IssuerOk(tok, conf) ==
    urlparse(tok.iss).netloc = urlparse(conf.PROVIDER_ENDPOINT).netloc

\* A faulty variant of NormalizeAud: a bare string is left a string.
NormalizeAud_Skipped(aud) == aud

\* Lines 82-83.
NormalizeAud(aud) == IF aud.type = "str" THEN AudList(<<aud.str>>) ELSE aud

\* `x in aud` and len(aud) for the str or list that aud is.
AudContains(aud, x) ==
    IF aud.type = "str" THEN StrContains(aud.str, x) ELSE ListContains(aud.list, x)
AudLen(aud) == IF aud.type = "str" THEN Len(aud.str) ELSE Len(aud.list)

\* Line 85, negated.
AudienceOk(aud, conf) == AudContains(aud, conf.CLIENT_ID)
\* Line 89, negated.
AzpPresentOk(aud, azp) == ~(AudLen(aud) > 1 /\ azp = Absent)
\* Line 93, negated.
AzpMatchOk(azp, conf) == ~(azp # Absent /\ azp[1] # conf.CLIENT_ID)
\* A faulty variant of ExpOk: a token is expired from now = exp on.
ExpOk_Strict(tok, now) == ~(now >= tok.exp)

\* Line 97, negated.
ExpOk(tok, now) == ~(now > tok.exp)
\* Line 101, negated.
NbfOk(tok, now) == ~(tok.nbf # Absent /\ now < tok.nbf[1])
\* Line 106, negated.
IatOk(tok, now, conf) == ~(now > tok.iat + conf.ID_TOKEN_MAX_AGE)
\* A faulty variant of NonceOk: the USE_NONCE setting is not consulted.
NonceOk_IgnoresSetting(tok, n, vn, conf) ==
    LET id_token_nonce == IF tok.nonce = Absent THEN None ELSE tok.nonce[1]
    IN ~(vn /\ id_token_nonce # n)

\* A faulty variant of NonceOk: an enforced nonce is accepted once only.
NonceOk_Consumed(tok, n, vn, conf) ==
    LET id_token_nonce == IF tok.nonce = Absent THEN None ELSE tok.nonce[1]
    IN ~(vn /\ conf.USE_NONCE /\ (id_token_nonce # n \/ prev # Absent))

\* Lines 111-112, negated: id_token.get('nonce', None) against the argument.
NonceOk(tok, n, vn, conf) ==
    LET id_token_nonce == IF tok.nonce = Absent THEN None ELSE tok.nonce[1]
    IN ~(vn /\ conf.USE_NONCE /\ id_token_nonce # n)

\* A faulty variant of FirstViolation: the nbf rule is left out.
FirstViolation_SkipNbf(tok, n, vn, conf, now) ==
    IF ~IssuerOk(tok, conf) THEN "issuer"
    ELSE LET aud == NormalizeAud(tok.aud) IN
      IF ~AudienceOk(aud, conf) THEN "audience"
      ELSE IF ~AzpPresentOk(aud, tok.azp) THEN "azp_missing"
      ELSE IF ~AzpMatchOk(tok.azp, conf) THEN "azp_mismatch"
      ELSE IF ~ExpOk(tok, now) THEN "exp"
      ELSE IF ~IatOk(tok, now, conf) THEN "iat"
      ELSE IF ~NonceOk(tok, n, vn, conf) THEN "nonce"
      ELSE ""

\* A faulty variant of FirstViolation: the expiry rule is evaluated before the audience rules.
FirstViolation_ExpBeforeAud(tok, n, vn, conf, now) ==
    IF ~IssuerOk(tok, conf) THEN "issuer"
    ELSE LET aud == NormalizeAud(tok.aud) IN
      IF ~ExpOk(tok, now) THEN "exp"
      ELSE IF ~AudienceOk(aud, conf) THEN "audience"
      ELSE IF ~AzpPresentOk(aud, tok.azp) THEN "azp_missing"
      ELSE IF ~AzpMatchOk(tok.azp, conf) THEN "azp_mismatch"
      ELSE IF ~NbfOk(tok, now) THEN "nbf"
      ELSE IF ~IatOk(tok, now, conf) THEN "iat"
      ELSE IF ~NonceOk(tok, n, vn, conf) THEN "nonce"
      ELSE ""

\* The raise statement _validate_claims ends at, "" when it returns. The
\* timestamp now is the one sample of line 96.
FirstViolation(tok, n, vn, conf, now) ==
    IF ~IssuerOk(tok, conf) THEN "issuer"
    ELSE LET aud == NormalizeAud(tok.aud) IN
      IF ~AudienceOk(aud, conf) THEN "audience"
      ELSE IF ~AzpPresentOk(aud, tok.azp) THEN "azp_missing"
      ELSE IF ~AzpMatchOk(tok.azp, conf) THEN "azp_mismatch"
      ELSE IF ~ExpOk(tok, now) THEN "exp"
      ELSE IF ~NbfOk(tok, now) THEN "nbf"
      ELSE IF ~IatOk(tok, now, conf) THEN "iat"
      ELSE IF ~NonceOk(tok, n, vn, conf) THEN "nonce"
      ELSE ""

\* The message of the SuspiciousOperation each raise statement raises
\* (lines 80, 87, 91, 94, 99, 103, 108, 114).
Message(site) ==
    CASE site = "issuer"       -> "Invalid issuer"
      [] site = "audience"     -> "Invalid audience"
      [] site = "azp_missing"  -> "Incorrect id_token: azp"
      [] site = "azp_mismatch" -> "Incorrect id_token: azp"
      [] site = "exp"          -> "Signature has expired"
      [] site = "nbf"          -> "Incorrect id_token: nbf"
      [] site = "iat"          -> "Incorrect id_token: iat"
      [] site = "nonce"        -> "Incorrect id_token: nonce"

\* ------------------------------------------------------------------- actions

Init ==
    /\ config \in Settings
    /\ pc = "idle"
    /\ jws = NoJws
    /\ nonce = None
    /\ validate_nonce = TRUE
    /\ jwks_endpoint = NominalJwksReply
    /\ jwks_keys = <<>>
    /\ id_token = Absent
    /\ utc_timestamp = Absent
    /\ result = NoResult
    /\ trace = <<>>
    /\ prev = Absent

\* A caller enters validate_and_return_id_token(jws, nonce, validate_nonce).
Call ==
    /\ pc = "idle"
    /\ \E D \in DeviationSets :
       \E iss \in Pick("iss", D, IssuerUrls, NominalIssuer),
          aud \in Pick("aud", D, AudValues, AudStr(ClientA)),
          azp \in Pick("azp", D, AzpValues, Absent),
          exp \in Pick("exp", D, Times, MaxTime),
          nbf \in Pick("nbf", D, NbfValues, Absent),
          iat \in Pick("iat", D, Times, MaxTime),
          nc  \in Pick("nonce_claim", D, NonceClaims, Some("n1")),
          n   \in Pick("nonce", D, NonceArgs, "n1"),
          vn  \in Pick("validate_nonce", D, BOOLEAN, TRUE),
          sg  \in Pick("signing", D, Signings(config), NominalSigning(config)),
          reply \in Pick("jwks", D, JwksReplies, NominalJwksReply) :
          /\ jws' = [wellformed |-> sg.wellformed, alg |-> sg.alg, signer |-> sg.signer,
                     payload |-> [iss |-> iss, aud |-> aud, azp |-> azp, exp |-> exp,
                                  nbf |-> nbf, iat |-> iat, nonce |-> nc]]
          /\ nonce' = n
          /\ validate_nonce' = vn
          /\ jwks_endpoint' = reply
    /\ pc' = "keys"
    /\ UNCHANGED <<config, jwks_keys, id_token, utc_timestamp, result, trace, prev>>

\* Line 41, first half: _get_jwks_keys(shared_key) is evaluated inside the try.
\* A JWKESTException from load_from_url is caught by line 42 and the call
\* returns None; any other exception leaves the call.
GetJwksKeys ==
    /\ pc = "keys"
    /\ trace' = Append(trace, "keys")
    /\ IF jwks_endpoint.outcome = "ok"
       THEN /\ jwks_keys' = get_jwks_keys(jwks_endpoint.keys, shared_key(config))
            /\ pc' = "verify"
            /\ UNCHANGED result
       ELSE /\ result' = IF jwks_endpoint.outcome = "JWKESTException"
                         THEN Returned(Absent)
                         ELSE Raised("Exception", "", "load_from_url")
            /\ pc' = "done"
            /\ UNCHANGED jwks_keys
    /\ UNCHANGED <<config, jws, nonce, validate_nonce, jwks_endpoint, id_token,
                   utc_timestamp, prev>>

\* A faulty variant of VerifyCompact: a failed verification is logged and the payload is
\* used all the same.
VerifyCompact_Continues ==
    /\ pc = "verify"
    /\ trace' = Append(trace, "verify")
    /\ id_token' = Some(jws.payload)
    /\ pc' = "claims"
    /\ UNCHANGED <<config, jws, nonce, validate_nonce, jwks_endpoint, jwks_keys,
                   utc_timestamp, result, prev>>

\* Lines 41-44: verify_compact returns the payload, or raises a JWKESTException
\* and the call returns None.
VerifyCompact ==
    /\ pc = "verify"
    /\ trace' = Append(trace, "verify")
    /\ IF verify_compact(jws, jwks_keys)
       THEN /\ id_token' = Some(jws.payload)
            /\ pc' = "claims"
            /\ UNCHANGED result
       ELSE /\ result' = Returned(Absent)
            /\ pc' = "done"
            /\ UNCHANGED id_token
    /\ UNCHANGED <<config, jws, nonce, validate_nonce, jwks_endpoint, jwks_keys,
                   utc_timestamp, prev>>

\* Lines 48-50: _validate_claims raises at its first violated rule, or returns
\* and the call returns id_token (whose aud lines 82-83 made a list).
ValidateClaims ==
    /\ pc = "claims"
    /\ trace' = Append(trace, "claims")
    /\ \E now \in Times :
          LET tok  == id_token[1]
              site == FirstViolation(tok, nonce, validate_nonce, config, now)
              normalized == [tok EXCEPT !.aud = NormalizeAud(tok.aud)]
          IN /\ utc_timestamp' = Some(now)
             /\ id_token' = IF site = "issuer" THEN id_token ELSE Some(normalized)
             /\ result' = IF site = ""
                          THEN Returned(Some(normalized))
                          ELSE Raised("SuspiciousOperation", Message(site), site)
    /\ pc' = "done"
    /\ UNCHANGED <<config, jws, nonce, validate_nonce, jwks_endpoint, jwks_keys, prev>>

\* The call is over and its locals are gone; the next call starts from scratch.
Finish ==
    /\ pc = "done"
    /\ pc' = "idle"
    /\ jws' = NoJws
    /\ nonce' = None
    /\ validate_nonce' = TRUE
    /\ jwks_endpoint' = NominalJwksReply
    /\ jwks_keys' = <<>>
    /\ id_token' = Absent
    /\ utc_timestamp' = Absent
    /\ result' = NoResult
    /\ trace' = <<>>
    /\ prev' = Absent
    /\ UNCHANGED config

\* The caller validates a token that was just accepted once more, with the same
\* arguments and the provider serving the same keys; the first call's outcome
\* is remembered.
CallAgain ==
    /\ pc = "done"
    /\ prev = Absent
    /\ result.kind = "return"
    /\ result.value # Absent
    /\ prev' = Some([result |-> result, utc_timestamp |-> utc_timestamp])
    /\ pc' = "keys"
    /\ jwks_keys' = <<>>
    /\ id_token' = Absent
    /\ utc_timestamp' = Absent
    /\ result' = NoResult
    /\ trace' = <<>>
    /\ UNCHANGED <<config, jws, nonce, validate_nonce, jwks_endpoint>>

Next == Call \/ GetJwksKeys \/ VerifyCompact \/ ValidateClaims \/ Finish \/ CallAgain

Spec == Init /\ [][Next]_vars

\* ======================================================================
\* Vocabulary of the claims, written in the claims' own terms and not in
\* terms of the operators above.
\* ======================================================================

\* Largest index i with s[i] \in chars, 0 when there is none (str.rfind).
RFind(s, chars) ==
    LET hits == {i \in 1..Len(s) : s[i] \in chars}
    IN IF hits = {} THEN 0
       ELSE CHOOSE i \in hits : \A j \in hits : i >= j


\* The elements of a sequence.
Range(s) == {s[i] : i \in 1..Len(s)}

\* The part of a netloc after its userinfo (ParseResult._hostinfo).
HostInfo(netloc) == SubSeq(netloc, RFind(netloc, {"@"}) + 1, Len(netloc))
\* ParseResult.hostname: the host, in lower case.
hostname(netloc) ==
    LET hi == HostInfo(netloc) IN Lower(SubSeq(hi, 1, Find(hi, {":"}, 1) - 1))
\* ParseResult.port: the digits after the host's ':', <<>> when there is no port.
port(netloc) ==
    LET hi == HostInfo(netloc) IN SubSeq(hi, Find(hi, {":"}, 1) + 1, Len(hi))
\* Scheme, host and port of a URL.
Origin(url) ==
    LET u == urlparse(url) IN <<u.scheme, hostname(u.netloc), port(u.netloc)>>

\* The token is a well-formed JWS with a real signature made with a key that
\* the key material holds.
SignedWithKeyIn(j, keys) ==
    /\ j.wellformed
    /\ j.alg \in {"HS256", "RS256"}
    /\ j.signer \in Range(keys)

\* aud as a list: a bare string is the one-element list holding it.
AudAsList(aud) == IF aud.type = "str" THEN <<aud.str>> ELSE aud.list

\* The nonce claim of a token as dict.get('nonce', None) reads it.
NonceClaimOrNone(tok) == IF tok.nonce = Absent THEN None ELSE tok.nonce[1]

RuleOrder == <<"issuer", "audience", "azp_missing", "azp_mismatch",
               "exp", "nbf", "iat", "nonce">>

\* Rule r, taken alone, is violated by the token tok at time now.
RuleViolated(r, tok, n, vn, conf, now) ==
    CASE r = "issuer"       -> urlparse(tok.iss).netloc # urlparse(conf.PROVIDER_ENDPOINT).netloc
      [] r = "audience"     -> conf.CLIENT_ID \notin Range(AudAsList(tok.aud))
      [] r = "azp_missing"  -> Len(AudAsList(tok.aud)) > 1 /\ tok.azp = Absent
      [] r = "azp_mismatch" -> tok.azp # Absent /\ tok.azp # Some(conf.CLIENT_ID)
      [] r = "exp"          -> now > tok.exp
      [] r = "nbf"          -> tok.nbf # Absent /\ now < tok.nbf[1]
      [] r = "iat"          -> now > tok.iat + conf.ID_TOKEN_MAX_AGE
      [] r = "nonce"        -> vn /\ conf.USE_NONCE /\ NonceClaimOrNone(tok) # n

\* The first rule of RuleOrder that is violated, "" when none is.
FirstRuleViolated(tok, n, vn, conf, now) ==
    LET bad == {i \in 1..Len(RuleOrder) : RuleViolated(RuleOrder[i], tok, n, vn, conf, now)}
    IN IF bad = {} THEN ""
       ELSE RuleOrder[CHOOSE i \in bad : \A j \in bad : i <= j]

\* The call is over and _validate_claims ran in it.
ClaimsValidated == pc = "done" /\ trace = <<"keys", "verify", "claims">>
\* The call is over and verify_compact ran in it.
SignatureChecked == pc = "done" /\ Len(trace) >= 2

IsPrefix(s, t) == Len(s) <= Len(t) /\ SubSeq(t, 1, Len(s)) = s

\* ----------------------------------------------------------------------
\* C1: validate_and_return_id_token hands a claim set to its caller only
\* when the signature verification succeeded and every claim rule (issuer,
\* audience, azp, exp, nbf, iat, nonce) passed at the sampled time; in every
\* other execution the caller receives no claim set.
C1_ClaimsOnlyAfterAllChecks ==
    result.value # Absent =>
        /\ pc = "done"
        /\ result.kind = "return"
        /\ jwks_endpoint.outcome = "ok"
        /\ SignedWithKeyIn(jws, jwks_keys)
        /\ utc_timestamp # Absent
        /\ \A i \in 1..Len(RuleOrder) :
              ~RuleViolated(RuleOrder[i], jws.payload, nonce, validate_nonce,
                            config, utc_timestamp[1])
        /\ result.value = Some([jws.payload EXCEPT !.aud = AudList(AudAsList(@))])

\* A first call that returned the claims of a token whose aud was a bare string.
C1_Witness ==
    /\ pc = "done"
    /\ prev = Absent
    /\ result.value # Absent
    /\ jws.payload.aud.type = "str"

\* ----------------------------------------------------------------------
\* C2 (as claimed): whenever signature verification fails, the call ends in
\* an explicit SignatureError failure and returns no claims.
C2_SignatureFailureRaises ==
    (SignatureChecked /\ ~SignedWithKeyIn(jws, jwks_keys)) =>
        /\ result.kind = "raise"
        /\ result.exc = "SignatureError"
        /\ result.value = Absent

\* C2 (amended): whenever signature verification fails, the call returns
\* None without raising: no claims, and no error the caller could tell from
\* an absent result.
C2_SignatureFailureReturnsNone ==
    (SignatureChecked /\ ~SignedWithKeyIn(jws, jwks_keys)) =>
        /\ result = Returned(Absent)
        /\ trace = <<"keys", "verify">>
        /\ id_token = Absent

\* A token signed with an RSA key the key material does not hold was answered
\* with None.
C2_Witness ==
    /\ pc = "done"
    /\ jws.wellformed
    /\ jws.signer = RsaKey("evil_rsa")
    /\ jwks_endpoint.outcome = "ok"
    /\ jws.signer \notin Range(jwks_keys)
    /\ result = Returned(Absent)

\* The key material has been built in the current call.
KeysBuilt == pc \in {"verify", "claims", "done"} /\ jwks_endpoint.outcome = "ok"
OctKeysOf(keys) == {i \in 1..Len(keys) : keys[i].kty = "oct"}

\* ----------------------------------------------------------------------
\* C3 (as claimed): for every configured signature algorithm the key
\* material holds exactly one oct key, and its value is the client secret.
\* Stated for the published key sets the claim has in mind, which hold
\* asymmetric keys only.
C3_OneOctKeyIsClientSecret ==
    (KeysBuilt /\ OctKeysOf(jwks_endpoint.keys) = {}) =>
        /\ Cardinality(OctKeysOf(jwks_keys)) = 1
        /\ \A i \in OctKeysOf(jwks_keys) :
              jwks_keys[i].key = smart_bytes(config.CLIENT_SECRET)

\* C3 (amended): the key material is the keys loaded from the JWKS endpoint
\* followed by exactly one added oct key, whose value is the client secret
\* when the configured algorithm is HS256 and the configured provider
\* signature key for every other algorithm.
C3_OneOctKeyAdded ==
    KeysBuilt =>
        /\ Len(jwks_keys) = Len(jwks_endpoint.keys) + 1
        /\ SubSeq(jwks_keys, 1, Len(jwks_endpoint.keys)) = jwks_endpoint.keys
        /\ jwks_keys[Len(jwks_keys)].kty = "oct"
        /\ jwks_keys[Len(jwks_keys)].key =
              smart_bytes(IF config.PROVIDER_SIGNATURE_ALG = "HS256"
                          THEN config.CLIENT_SECRET
                          ELSE config.PROVIDER_SIGNATURE_KEY)

\* Under RS256 the one oct key of the key material is the provider signature key.
C3_Witness ==
    /\ KeysBuilt
    /\ config.PROVIDER_SIGNATURE_ALG = "RS256"
    /\ Cardinality(OctKeysOf(jwks_keys)) = 1
    /\ \A i \in OctKeysOf(jwks_keys) :
          jwks_keys[i].key = smart_bytes(config.PROVIDER_SIGNATURE_KEY)

\* ----------------------------------------------------------------------
\* C4 (as claimed): the issuer rule passes exactly when scheme, host and
\* port of iss equal those of the provider endpoint, whatever the paths;
\* otherwise validation fails at the issuer rule.
C4_IssuerRuleComparesOrigin ==
    ClaimsValidated =>
        ((result.site # "issuer") <=>
            (Origin(jws.payload.iss) = Origin(config.PROVIDER_ENDPOINT)))

\* C4 (amended): the issuer rule passes exactly when the netloc of iss (its
\* userinfo, host and port as written) equals the netloc of the provider
\* endpoint, whatever their schemes and paths are; otherwise validation fails
\* with SuspiciousOperation('Invalid issuer').
C4_IssuerRuleComparesNetloc ==
    ClaimsValidated =>
        /\ (result.site # "issuer") <=>
              (urlparse(jws.payload.iss).netloc = urlparse(config.PROVIDER_ENDPOINT).netloc)
        /\ (result.site = "issuer") =>
              result = Raised("SuspiciousOperation", "Invalid issuer", "issuer")

\* An http issuer passed the issuer rule of an https provider endpoint with
\* another path.
C4_Witness ==
    /\ ClaimsValidated
    /\ result.site # "issuer"
    /\ urlparse(jws.payload.iss).scheme # urlparse(config.PROVIDER_ENDPOINT).scheme
    /\ urlparse(jws.payload.iss).path # urlparse(config.PROVIDER_ENDPOINT).path

\* ----------------------------------------------------------------------
\* C5 (as claimed): the claim rules are evaluated in the order issuer,
\* audience, missing azp, azp mismatch, expiry, not-before, issued-at, nonce;
\* validation stops at the first violated rule and reports that rule's own
\* error, and the caller can tell the eight errors apart.
C5_FirstViolationReportedDistinctly ==
    ClaimsValidated =>
        LET first == FirstRuleViolated(jws.payload, nonce, validate_nonce, config,
                                       utc_timestamp[1])
        IN /\ result.site = first
           /\ (first # "") => /\ result.kind = "raise"
                              /\ \A r \in Range(RuleOrder) \ {first} :
                                    Message(r) # result.msg

\* C5 (amended): the rules are evaluated in that order and validation stops
\* at the first violated rule, raising SuspiciousOperation with that rule's
\* message; the messages tell the rules apart except for a missing azp and an
\* azp mismatch, which raise the same 'Incorrect id_token: azp'.
C5_FirstViolationReported ==
    ClaimsValidated =>
        LET first == FirstRuleViolated(jws.payload, nonce, validate_nonce, config,
                                       utc_timestamp[1])
        IN /\ result.site = first
           /\ (first # "") =>
                 /\ result.kind = "raise"
                 /\ result.exc = "SuspiciousOperation"
                 /\ result.value = Absent
                 /\ \A r \in Range(RuleOrder) \ {first} :
                       (Message(r) = result.msg) <=>
                           ({r, first} = {"azp_missing", "azp_mismatch"})
           /\ (first = "") => result.kind = "return"

\* A token that violates the audience rule and the expiry rule was rejected
\* for its audience.
C5_Witness ==
    /\ ClaimsValidated
    /\ result.msg = "Invalid audience"
    /\ utc_timestamp[1] > jws.payload.exp

\* The call is over and _validate_claims reached its nonce rule.
NonceRuleReached == ClaimsValidated /\ result.site \in {"", "nonce"}

\* ----------------------------------------------------------------------
\* C6 (as claimed): with validate_nonce and USE_NONCE both on, the nonce rule
\* passes only if the token carries a nonce claim equal to the expected
\* nonce, so a token without a nonce claim is rejected for every expected
\* nonce, a null one included; with either flag off the rule never rejects.
C6_NonceRuleNeedsNonceClaim ==
    NonceRuleReached =>
        /\ (validate_nonce /\ config.USE_NONCE /\ result.site = "") =>
              (jws.payload.nonce # Absent /\ jws.payload.nonce[1] = nonce)
        /\ ~(validate_nonce /\ config.USE_NONCE) => result.site = ""

\* C6 (amended): with both flags on, the nonce rule passes exactly when the
\* token's nonce claim, read as null when the claim is absent, equals the
\* expected nonce: a token without a nonce claim is rejected for every
\* non-null expected nonce and accepted when the expected nonce is null.
\* With either flag off the rule never rejects.
C6_NonceRuleComparesWithDefault ==
    NonceRuleReached =>
        /\ (validate_nonce /\ config.USE_NONCE) =>
              ((result.site = "") <=>
                  (IF jws.payload.nonce = Absent
                   THEN nonce = None
                   ELSE jws.payload.nonce[1] = nonce))
        /\ ~(validate_nonce /\ config.USE_NONCE) => result.site = ""
        /\ (result.site = "nonce") =>
              result = Raised("SuspiciousOperation", "Incorrect id_token: nonce", "nonce")

\* With both flags on, a token without a nonce claim was accepted against a
\* null expected nonce.
C6_Witness ==
    /\ NonceRuleReached
    /\ validate_nonce
    /\ config.USE_NONCE
    /\ jws.payload.nonce = Absent
    /\ nonce = None
    /\ result.value # Absent

\* The call is over and _validate_claims got past its issuer rule.
AudienceRulesReached == ClaimsValidated /\ result.site # "issuer"

\* ----------------------------------------------------------------------
\* C7: the audience and authorized-party rules pass exactly when the client
\* id is a member of aud (a bare string counting as the one-element set
\* holding that whole string), and aud has at most one entry or azp is
\* present, and azp is absent or equals the client id; otherwise validation
\* fails at the audience, the missing-azp or the azp-mismatch rule.
C7_AudienceAndAzpRules ==
    AudienceRulesReached =>
        LET tok    == jws.payload
            auds   == AudAsList(tok.aud)
            member == \E i \in 1..Len(auds) : auds[i] = config.CLIENT_ID
            hasAzp == Len(auds) <= 1 \/ tok.azp # Absent
            azpOk  == tok.azp = Absent \/ tok.azp[1] = config.CLIENT_ID
        IN /\ (result.site \notin {"audience", "azp_missing", "azp_mismatch"})
                 <=> (member /\ hasAzp /\ azpOk)
           /\ (result.site = "audience") <=> ~member
           /\ (result.site = "azp_missing") <=> (member /\ ~hasAzp)
           /\ (result.site = "azp_mismatch") <=> (member /\ hasAzp /\ ~azpOk)
           /\ (result.site = "audience") =>
                 result = Raised("SuspiciousOperation", "Invalid audience", "audience")
           /\ (result.site \in {"azp_missing", "azp_mismatch"}) =>
                 result = Raised("SuspiciousOperation", "Incorrect id_token: azp", result.site)

\* A token with two audiences and the client id as azp got past the audience
\* and azp rules.
C7_Witness ==
    /\ AudienceRulesReached
    /\ jws.payload.aud = AudList(<<ClientA, ClientB>>)
    /\ jws.payload.azp = Some(config.CLIENT_ID)
    /\ result.value # Absent

\* The call is over and _validate_claims reached its time rules.
TimeRulesReached == ClaimsValidated /\ result.site \in {"exp", "nbf", "iat", "nonce", ""}

\* ----------------------------------------------------------------------
\* C8: one timestamp now is sampled in a validation call and used for all
\* three time rules, which pass exactly when now <= exp, and nbf is absent or
\* now >= nbf, and now <= iat + maxAge; now = exp, now = nbf and
\* now = iat + maxAge are accepted and exp = now - 1 is rejected as expired.
C8_TimeRulesAtOneTimestamp ==
    TimeRulesReached =>
        LET tok   == jws.payload
            now   == utc_timestamp[1]
            expOk == now <= tok.exp
            nbfOk == tok.nbf = Absent \/ now >= tok.nbf[1]
            iatOk == now <= tok.iat + config.ID_TOKEN_MAX_AGE
        IN /\ Len(utc_timestamp) = 1
           /\ (result.site \notin {"exp", "nbf", "iat"}) <=> (expOk /\ nbfOk /\ iatOk)
           /\ (result.site = "exp") <=> ~expOk
           /\ (result.site = "nbf") <=> (expOk /\ ~nbfOk)
           /\ (result.site = "iat") <=> (expOk /\ nbfOk /\ ~iatOk)
           /\ (tok.exp = now - 1) =>
                 result = Raised("SuspiciousOperation", "Signature has expired", "exp")

\* A token was accepted at now = exp = nbf = iat + maxAge.
C8_Witness ==
    /\ TimeRulesReached
    /\ jws.payload.exp = utc_timestamp[1]
    /\ jws.payload.nbf = Some(utc_timestamp[1])
    /\ jws.payload.iat + config.ID_TOKEN_MAX_AGE = utc_timestamp[1]
    /\ result.value # Absent

\* The stage order every call follows.
StageOrder == <<"keys", "verify", "claims">>

\* The stages run in order and none runs after a failed one: no signature is
\* checked when key resolution failed, and no claim rule is evaluated on a
\* token whose signature was not verified.
StagesShortCircuit ==
    /\ IsPrefix(trace, StageOrder)
    /\ Len(trace) >= 2 => jwks_endpoint.outcome = "ok"
    /\ Len(trace) >= 3 => SignedWithKeyIn(jws, jwks_keys)
    /\ (pc = "done" /\ Len(trace) = 1) => jwks_endpoint.outcome # "ok"
    /\ (pc = "done" /\ Len(trace) = 2) => ~SignedWithKeyIn(jws, jwks_keys)

\* ----------------------------------------------------------------------
\* C9 (as claimed): the stages run in the order resolve keys, verify
\* signature, validate claims; no stage runs after a failed one, and the
\* call's result is the error of the stage that failed: an error for key
\* resolution, an error for verification, a claim error for the claims.
C9_StagesEndInTypedErrors ==
    /\ StagesShortCircuit
    /\ (pc = "done" /\ Len(trace) = 1) => result.kind = "raise"
    /\ (pc = "done" /\ Len(trace) = 2) => result.kind = "raise"
    /\ (pc = "done" /\ Len(trace) = 3 /\ result.value = Absent) => result.kind = "raise"

\* C9 (amended): the stages run in that order and no stage runs after a
\* failed one; a failed claim validation ends the call with its
\* SuspiciousOperation, a failed verification ends it by returning None, and
\* a failed key resolution ends it by returning None when the library raised
\* a JWKESTException and with the library's exception otherwise.
C9_StagesEndAsCoded ==
    /\ StagesShortCircuit
    /\ (pc = "done" /\ Len(trace) = 1) =>
          result = IF jwks_endpoint.outcome = "JWKESTException"
                   THEN Returned(Absent)
                   ELSE Raised("Exception", "", "load_from_url")
    /\ (pc = "done" /\ Len(trace) = 2) => result = Returned(Absent)
    /\ (pc = "done" /\ Len(trace) = 3 /\ result.value = Absent) =>
          /\ result.kind = "raise"
          /\ result.exc = "SuspiciousOperation"
          /\ result.site \in Range(RuleOrder)

\* A call whose key resolution succeeded ended at the signature check, on a
\* token that also violates a claim rule.
C9_Witness ==
    /\ pc = "done"
    /\ trace = <<"keys", "verify">>
    /\ ~SignedWithKeyIn(jws, jwks_keys)
    /\ jws.payload.aud = AudStr(ClientB)
    /\ result = Returned(Absent)

\* The token passes the three time rules at time now.
ValidAt(tok, conf, now) ==
    /\ now <= tok.exp
    /\ (tok.nbf = Absent \/ now >= tok.nbf[1])
    /\ now <= tok.iat + conf.ID_TOKEN_MAX_AGE

\* ----------------------------------------------------------------------
\* C10: validating the same valid token twice in a row with the same
\* configuration, nonce and enforce-nonce flag returns the same claim set both
\* times: the first call leaves nothing behind (a consumed nonce, a mutated
\* token, configuration or key material) that changes the second call's
\* outcome while the token is still within its validity period.
C10_SecondCallReturnsSameClaims ==
    (pc = "done" /\ prev # Absent) =>
        /\ prev[1].result.value # Absent
        /\ utc_timestamp # Absent
        /\ ValidAt(jws.payload, config, utc_timestamp[1]) => result = prev[1].result

\* The second of two calls returned the claim set the first returned, for a
\* token carrying a nonce that was enforced both times.
C10_Witness ==
    /\ pc = "done"
    /\ prev # Absent
    /\ validate_nonce
    /\ config.USE_NONCE
    /\ jws.payload.nonce = Some(nonce)
    /\ result.value # Absent
    /\ result = prev[1].result

====
